---- MODULE Spec2Model ----
(***************************************************************************)
(* A model of k4leg/anime-downloader:                                      *)
(*   - the resumable downloader (anime_downloader/downloader.py), as the   *)
(*     main thread of Downloader.download() plus one process per task      *)
(*     submitted to the ThreadPoolExecutor;                                *)
(*   - the tracked-show entity, its playlist refresh and the pickled       *)
(*     store (anime_downloader/animevost.py, sites/animevost.py,           *)
(*     library.py);                                                        *)
(*   - library.Anime objects in the store and the functions of library.py  *)
(*     over it (get_db, remove_from_db, get_updated_anime_from_db,         *)
(*     update_and_save_all_db);                                            *)
(*   - library.Playlist and its 1-based __getitem__.                       *)
(* A URL is a record [netloc, path]; a path and a file name are sequences  *)
(* of tokens (one token per character, a percent escape being one token).  *)
(* A file's content is a sequence of bytes; one byte of a source stands    *)
(* for one chunk of response.iter_content(2 ** 20).                        *)
(***************************************************************************)
EXTENDS Integers, Sequences, FiniteSets, TLC

VARIABLES
    urls,          \* self.urls: the batch, a sequence of URLs
    continue_,     \* self.continue_
    max_workers,   \* the max_workers argument of _stage_1_download
    fs,            \* the file system: a function from the paths that exist to contents
    fs0,           \* the file system when download() was called (never changes)
    main,          \* where the thread that called download() is
    i,             \* the index of the `for url in self.urls` loop the main thread is in
    err,           \* the exception download() ended with, "none" if none
    task,          \* task[k]: the state of pool.submit(self._copy_url, ..., urls[k])
    rn,            \* rn[k]: the outcome of the rename attempted for urls[k] in stage 2
    site,          \* the state of the animevost site: which feeds its API serves
    cur,           \* the Animevost object the program holds, if any
    db,            \* the store file: whether it exists, and the list pickled in it
    op,            \* the last operation on the store or the object, and how it ended
    ret,           \* what the last call returned, or the exception it raised
    api_entries,   \* the entries of the playlist API a playlist is built from
    lib_playlist,  \* the library.Playlist built from them: None or Some(playlist)
    item_key       \* the key of the last lib_playlist[key]

dlvars == <<urls, continue_, max_workers, fs, fs0, main, i, err, task, rn>>

stvars == <<site, cur, db, op, ret>>

plvars == <<api_entries, lib_playlist, item_key>>

vars == <<dlvars, stvars, plvars>>

----------------------------------------------------------------------------
(* Bounds of the model. *)

MaxUrls == 2        \* the longest batch
SourceSize == 2     \* the number of bytes (chunks) of every source
MaxWorkers == 1     \* the largest max_workers tried besides the default

(* Program constants. *)
DefaultMaxWorkers == 4

----------------------------------------------------------------------------
(* URLs and file names. *)

Max(S) == CHOOSE x \in S : \A y \in S : y <= x

\* The URLs a batch is drawn from.  The first and the third differ in the
\* directory only, the second holds an escaped slash in its last segment.
Catalogue ==
    << [netloc |-> "h", path |-> <<"/", "a">>],
       [netloc |-> "h", path |-> <<"/", "a", "%2F", "b">>],
       [netloc |-> "h", path |-> <<"/", "d", "/", "a">>],
       [netloc |-> "h", path |-> <<"/", "b", "%20", "c">>] >>

Ord(url) == CHOOSE n \in DOMAIN Catalogue : Catalogue[n] = url

\* urllib.parse.urlsplit(url).path
urlsplit_path(url) == url.path

\* urllib.parse.unquote: every percent escape becomes the character it encodes
unquote(s) ==
    [n \in 1..Len(s) |->
        IF s[n] = "%2F" THEN "/" ELSE IF s[n] = "%20" THEN " " ELSE s[n]]

\* os.path.basename: what follows the last slash
basename(s) ==
    LET slashes == {n \in 1..Len(s) : s[n] = "/"}
        last == IF slashes = {} THEN 0 ELSE Max(slashes)
    IN  SubSeq(s, last + 1, Len(s))

\* AbstractDownloader.get_file_name, the value it returns
get_file_name(url) == basename(unquote(urlsplit_path(url)))

\* AbstractDownloader.get_file_name raises ValueError.  The condition is
\*   (basename(file_name) != file_name or unquote(basename(url_path))) != file_name
\* so the left operand of `or` is a bool, which never equals the file name
\* when it is True.
file_name_rejected(url) ==
    LET url_path == urlsplit_path(url)
        file_name == get_file_name(url)
    IN  IF basename(file_name) # file_name
        THEN TRUE
        ELSE unquote(basename(url_path)) # file_name

path_to_downloads == <<"dl", "/">>

\* AbstractDownloader.get_path_to_file
get_path_to_file(url) == path_to_downloads \o get_file_name(url)

\* AbstractDownloader.get_temp_file_name
get_temp_file_name(url) == Append(get_file_name(url), ".part")

\* AbstractDownloader.get_path_to_temp_file
get_path_to_temp_file(url) == path_to_downloads \o get_temp_file_name(url)

exists(path) == path \in DOMAIN fs

\* AbstractDownloader.get_temp_file_size
get_temp_file_size(url) == Len(fs[get_path_to_temp_file(url)])

----------------------------------------------------------------------------
(* The server. *)

\* The n-th byte of the resource at url
Byte(url, n) == 10 * Ord(url) + n

\* The resource at url
Source(url) == [n \in 1..SourceSize |-> Byte(url, n)]

\* The body of the answer to a request without a Range header, or to one the
\* server ignores (200), to a range it serves (206), and to a range that
\* starts at or past the end of the resource (416, an error page).
ResponseBody(url, range, partial) ==
    IF range < 0 \/ ~partial THEN Source(url)
    ELSE IF range < SourceSize THEN SubSeq(Source(url), range + 1, SourceSize)
    ELSE <<99>>

----------------------------------------------------------------------------
(* Files. *)

\* open(path, 'ab') creates the file when it is missing; open(path, 'wb')
\* creates or truncates it.
OpenFile(files, path, flags) ==
    IF flags = "ab" /\ path \in DOMAIN files
    THEN files
    ELSE [p \in DOMAIN files \cup {path} |-> IF p = path THEN <<>> ELSE files[p]]

\* write(data) on a file opened 'ab' appends at the end of the file; on a
\* file opened 'wb' it writes at the position of the file object, filling a
\* gap left by another writer's truncation with zero bytes.
WriteAt(content, pos, byte) ==
    IF pos < Len(content)
    THEN [content EXCEPT ![pos + 1] = byte]
    ELSE content \o [n \in 1..(pos - Len(content)) |-> 0] \o <<byte>>

WriteFile(files, path, flags, pos, byte) ==
    [files EXCEPT ![path] =
        IF flags = "ab" THEN Append(@, byte) ELSE WriteAt(@, pos, byte)]

\* os.rename(src, dst) when it succeeds
RenameFile(files, src, dst) ==
    [p \in (DOMAIN files \ {src}) \cup {dst} |->
        IF p = dst THEN files[src] ELSE files[p]]

----------------------------------------------------------------------------
(* The initial states of a download: the arguments of Downloader(...) and the
   temp files an earlier, interrupted run left behind. *)

\* The batches tried: the URLs of the catalogue at one to MaxUrls of its
\* positions, in the catalogue's order.
Batches ==
    LET nth(S, n) == CHOOSE x \in S : Cardinality({y \in S : y < x}) = n - 1
    IN  {[n \in 1..Cardinality(S) |-> Catalogue[nth(S, n)]] :
            S \in {T \in SUBSET DOMAIN Catalogue : Cardinality(T) \in 1..MaxUrls}}

WorkerChoices == (1..MaxWorkers) \cup {DefaultMaxWorkers}

\* The temp files a batch may find: for a file name, the first bytes of a
\* resource of that name (none of them when the earlier run broke right after
\* open()).
LeftOver(batch) ==
    LET named == {u \in {batch[k] : k \in DOMAIN batch} : ~file_name_rejected(u)}
        paths == {get_path_to_temp_file(u) : u \in named}
        prefixes(p) ==
            {SubSeq(Source(u), 1, n) : u \in {v \in named : get_path_to_temp_file(v) = p},
                                       n \in 0..(SourceSize - 1)}
    IN  UNION {{f \in [P -> UNION {prefixes(p) : p \in P}] :
                    \A p \in P : f[p] \in prefixes(p)} : P \in SUBSET paths}

\* No Animevost object, no store file
NoObject == [has |-> FALSE]

NoStore == [exists |-> FALSE, items |-> <<>>]

\* A call that returned value; a call that raised exc
Returned(value) == [exc |-> "none", value |-> value]

Raised(exc) == [exc |-> exc, value |-> <<>>]

\* Python's None, and a value that is not None
None == <<>>

Some(x) == <<x>>

\* No playlist built, no playlist[key] evaluated
InitNoPlaylist ==
    /\ api_entries = <<>>
    /\ lib_playlist = None
    /\ item_key = None

NewTask ==
    [st |-> "new", range |-> -1, partial |-> FALSE, hasCL |-> FALSE,
     body |-> <<>>, got |-> <<>>, flags |-> "none", pos |-> 0, cause |-> "none"]

InitDownloader ==
    /\ urls \in Batches
    /\ continue_ \in BOOLEAN
    /\ max_workers \in WorkerChoices
    /\ fs \in LeftOver(urls)
    /\ fs0 = fs
    /\ main = "stage1"
    /\ i = 1
    /\ err = "none"
    /\ task = [k \in DOMAIN urls |-> NewTask]
    /\ rn = [k \in DOMAIN urls |-> "none"]
    /\ site = 1
    /\ cur = NoObject
    /\ db = NoStore
    /\ op = "none"
    /\ ret = Returned(<<>>)
    /\ InitNoPlaylist

----------------------------------------------------------------------------
(* Downloader.download(): stage 1, the main thread. *)

\* One iteration of `for url in self.urls` in _stage_1_download: the file
\* name is computed (it may be rejected, which ends the loop with the
\* exception and leaves the `with` block) and the task is submitted.
SubmitSkipsRejected ==
    /\ main = "stage1"
    /\ i <= Len(urls)
    /\ task' = IF file_name_rejected(urls[i]) THEN task
               ELSE [task EXCEPT ![i].st = "queued"]
    /\ i' = i + 1
    /\ main' = IF i = Len(urls) THEN "joining" ELSE "stage1"
    /\ UNCHANGED <<stvars, plvars, urls, continue_, max_workers, fs, fs0, err, rn>>

Submit ==
    /\ main = "stage1"
    /\ i <= Len(urls)
    /\ IF file_name_rejected(urls[i])
       THEN /\ main' = "unwinding"
            /\ err' = "ValueError"
            /\ UNCHANGED <<i, task>>
       ELSE /\ task' = [task EXCEPT ![i].st = "queued"]
            /\ i' = i + 1
            /\ main' = IF i = Len(urls) THEN "joining" ELSE "stage1"
            /\ err' = err
    /\ UNCHANGED <<stvars, plvars, urls, continue_, max_workers, fs, fs0, rn>>

\* The tasks a worker thread is executing
Executing == {k \in DOMAIN task : task[k].st \in {"running", "responded", "streaming"}}

\* The tasks waiting in the pool's queue
Queued == {k \in DOMAIN task : task[k].st = "queued"}

\* ThreadPoolExecutor(max_workers=max_workers): a thread is there to take a
\* queued task
WorkerFreeUnbounded == TRUE

WorkerFree == Cardinality(Executing) < max_workers

\* A worker thread takes the oldest queued task
StartTask(k) ==
    /\ k \in Queued
    /\ \A j \in Queued : k <= j
    /\ WorkerFree
    /\ task' = [task EXCEPT ![k].st = "running"]
    /\ UNCHANGED <<stvars, plvars, urls, continue_, max_workers, fs, fs0, main, i, err, rn>>

\* Leaving `with ThreadPoolExecutor(...) as pool`: shutdown(wait=True)
\* returns when every submitted task has ended.
PoolExitNoWait ==
    /\ main \in {"joining", "unwinding"}
    /\ main' = IF main = "joining" THEN "stage2" ELSE "raised"
    /\ i' = IF main = "joining" THEN 1 ELSE i
    /\ UNCHANGED <<stvars, plvars, urls, continue_, max_workers, fs, fs0, err, task, rn>>

PoolExit ==
    /\ main \in {"joining", "unwinding"}
    /\ Executing = {}
    /\ Queued = {}
    /\ main' = IF main = "joining" THEN "stage2" ELSE "raised"
    /\ i' = IF main = "joining" THEN 1 ELSE i
    /\ UNCHANGED <<stvars, plvars, urls, continue_, max_workers, fs, fs0, err, task, rn>>

----------------------------------------------------------------------------
(* Downloader._copy_url, run by a worker thread. *)

\* An exception leaves _copy_url: the pool stores it in the task's future,
\* which nobody reads.
TaskFailsCancelsQueue(t, k, cause) ==
    [j \in DOMAIN t |->
        IF j = k THEN [NewTask EXCEPT !.st = "failed", !.cause = cause]
        ELSE IF t[j].st = "queued" THEN [t[j] EXCEPT !.st = "cancelled"]
        ELSE t[j]]

TaskFails(t, k, cause) == [t EXCEPT ![k] = [NewTask EXCEPT !.st = "failed", !.cause = cause]]

\* Downloader._get_response, the Range header: the first byte asked for, or
\* -1 when the request carries no Range header
RangeHeaderNever(url) == -1

RangeHeader(url) ==
    IF continue_ /\ exists(get_path_to_temp_file(url))
    THEN get_temp_file_size(url)
    ELSE -1

\* Downloader._copy_url, temp_file_flags
temp_file_flags_wb == "wb"

temp_file_flags == IF continue_ THEN "ab" ELSE "wb"

\* Downloader._get_response: requests.get raises, or returns a response.
\* The server may act on the Range header or ignore it, and may declare the
\* length of the body or not.
GetResponse(k) ==
    /\ task[k].st = "running"
    /\ LET range == RangeHeader(urls[k])
       IN  \/ task' = TaskFails(task, k, "request")
           \/ \E honoured \in (IF range < 0 THEN {FALSE} ELSE BOOLEAN), hasCL \in BOOLEAN :
                task' = [task EXCEPT ![k] =
                            [@ EXCEPT !.st = "responded",
                                      !.range = range,
                                      !.partial = honoured,
                                      !.hasCL = hasCL,
                                      !.body = ResponseBody(urls[k], range, honoured)]]
    /\ UNCHANGED <<stvars, plvars, urls, continue_, max_workers, fs, fs0, main, i, err, rn>>

\* Downloader._get_response_size raises KeyError without a Content-Length
get_response_size_raises(response) == ~response.hasCL

\* Downloader._copy_url from final_file_size to open(): the size is read
\* from the headers, then the temp file is opened.
Open(k) ==
    /\ task[k].st = "responded"
    /\ IF get_response_size_raises(task[k])
       THEN /\ task' = TaskFails(task, k, "header")
            /\ fs' = fs
       ELSE /\ fs' = OpenFile(fs, get_path_to_temp_file(urls[k]), temp_file_flags)
            /\ task' = [task EXCEPT ![k].st = "streaming",
                                    ![k].flags = temp_file_flags,
                                    ![k].pos = 0]
    /\ UNCHANGED <<stvars, plvars, urls, continue_, max_workers, fs0, main, i, err, rn>>

\* One iteration of `for data in response.iter_content(...)`: the next chunk
\* is written and flushed, or the connection breaks and iter_content raises.
\* After the last chunk the file is closed and _copy_url returns.
WriteChunk(k) ==
    /\ task[k].st = "streaming"
    /\ task[k].body # <<>>
    /\ \/ /\ task' = TaskFails(task, k, "stream")
          /\ fs' = fs
       \/ /\ fs' = WriteFile(fs, get_path_to_temp_file(urls[k]), task[k].flags,
                             task[k].pos, Head(task[k].body))
          /\ task' = [task EXCEPT ![k].body = Tail(@),
                                  ![k].got = Append(@, Head(task[k].body)),
                                  ![k].pos = @ + 1,
                                  ![k].st = IF Len(task[k].body) = 1
                                            THEN "ok" ELSE "streaming"]
    /\ UNCHANGED <<stvars, plvars, urls, continue_, max_workers, fs0, main, i, err, rn>>

----------------------------------------------------------------------------
(* Downloader.download(): stage 2, the main thread. *)

\* AbstractDownloader._rename is os.rename, which lets an OSError through
rename_raises_os_rename(oserror) == oserror

\* Downloader._rename catches the OSError of os.rename and prints it
rename_raises(oserror) == FALSE

\* One iteration of `for url in self.urls` in
\* _stage_2_rename_temp_file_name_to_file_name.  os.rename fails when the
\* temp file is missing, and may fail for another reason (permissions, a
\* destination on another device).
Rename ==
    /\ main = "stage2"
    /\ i <= Len(urls)
    /\ LET src == get_path_to_temp_file(urls[i])
           dst == get_path_to_file(urls[i])
       IN  \E oserror \in (IF exists(src) THEN BOOLEAN ELSE {TRUE}) :
             /\ fs' = IF oserror THEN fs ELSE RenameFile(fs, src, dst)
             /\ rn' = [rn EXCEPT ![i] = IF oserror THEN "oserror" ELSE "ok"]
             /\ IF rename_raises(oserror)
                THEN /\ main' = "raised"
                     /\ err' = "OSError"
                     /\ i' = i
                ELSE /\ main' = IF i = Len(urls) THEN "returned" ELSE "stage2"
                     /\ err' = err
                     /\ i' = i + 1
    /\ UNCHANGED <<stvars, plvars, urls, continue_, max_workers, fs0, task>>

NextDownloader ==
    \/ Submit
    \/ \E k \in DOMAIN task : StartTask(k)
    \/ \E k \in DOMAIN task : GetResponse(k)
    \/ \E k \in DOMAIN task : Open(k)
    \/ \E k \in DOMAIN task : WriteChunk(k)
    \/ PoolExit
    \/ Rename

SpecDownloader == InitDownloader /\ [][NextDownloader]_vars

\* The main thread and the worker threads keep running, and every request
\* and every read of a response ends (with data or with an exception).
\* It starts with at most one temp file left over by an earlier run.
InitOneLeftOver == InitDownloader /\ Cardinality(DOMAIN fs) <= 1

SpecDownloaderFair ==
    InitOneLeftOver /\ [][NextDownloader]_vars /\ WF_vars(NextDownloader)

----------------------------------------------------------------------------
(* The animevost site, as the program sees it. *)

Min(S) == CHOOSE x \in S : \A y \in S : x <= y

DigitTokens == <<"0", "1", "2", "3", "4", "5", "6", "7", "8", "9">>

IsDigit(t) == \E n \in DOMAIN DigitTokens : DigitTokens[n] = t

DigitValue(t) == (CHOOSE n \in DOMAIN DigitTokens : DigitTokens[n] = t) - 1

\* int() of a run of digits
RECURSIVE int(_)
int(ts) ==
    IF ts = <<>> THEN 0
    ELSE 10 * int(SubSeq(ts, 1, Len(ts) - 1)) + DigitValue(ts[Len(ts)])

\* The links of two releases
Link1 == <<"/", "tip", "/", "1", "-", "naruto">>

Link2 == <<"/", "tip", "/", "2", "-", "bleach">>

\* The link of a page that is no release: no number between '/' and '-'
Link3 == <<"/", "tip", "/", "gintama">>

\* AnimevostSearchQuery._get_search_query_results, what the site answers:
\* the releases found, with the titles of the result page
SiteSearch(search_query_text) ==
    IF search_query_text = "naruto"
    THEN << [link |-> Link1, title |-> "Naruto [1-220]"],
            [link |-> Link2, title |-> "Bleach"] >>
    ELSE IF search_query_text = "bleach"
    THEN << [link |-> Link2, title |-> "Bleach"] >>
    ELSE IF search_query_text = "gintama"
    THEN << [link |-> Link3, title |-> "Gintama"] >>
    ELSE <<>>

\* AnimevostRelease._get_title: the title on the page of the release
PageTitle(link) == IF link = Link1 THEN "Naruto" ELSE "Bleach"

\* An entry of the playlist API: [{'name': '<n> seriya', 'hd': <link>}, ...]
\* (the word after the number is the Russian for "episode", in Cyrillic in
\* the source)
Entry(n, hd) == [name |-> <<n, " seriya">>, hd |-> hd]

\* What the playlist API serves, by the state of the site and the id: the
\* site adds an episode (out of order), reorders its answer, lists an
\* episode twice, and lists a film, whose name holds no number.
Feeds ==
    << [id \in {1, 2} |-> IF id = 1 THEN <<Entry("1", "x")>>
                                    ELSE <<Entry("1", "u")>>],
       [id \in {1, 2} |-> IF id = 1 THEN <<Entry("2", "y"), Entry("1", "x")>>
                                    ELSE <<Entry("1", "u")>>],
       [id \in {1, 2} |-> IF id = 1 THEN <<Entry("1", "x"), Entry("2", "y")>>
                                    ELSE <<Entry("1", "u"), Entry("1", "w")>>],
       [id \in {1, 2} |-> IF id = 1 THEN <<[name |-> <<"Film">>, hd |-> "f"]>>
                                    ELSE <<Entry("1", "u")>>] >>

\* requests.post('https://api.animevost.org/v1/playlist', {'id': id}).json()
Feed(id) == Feeds[site][id]

\* The site changes.
SiteChange ==
    /\ site' \in DOMAIN Feeds \ {site}
    /\ op' = "site"
    /\ ret' = Returned(<<>>)
    /\ UNCHANGED <<dlvars, plvars, cur, db>>

----------------------------------------------------------------------------
(* AnimevostPlaylist. *)

\* re.sub(r' seriya', '', name)
re_sub_episode(name) == SelectSeq(name, LAMBDA t : t # " seriya")

\* int(...) raises ValueError unless it is given a number
int_raises(ts) == ts = <<>> \/ \E n \in DOMAIN ts : ~IsDigit(ts[n])

\* AnimevostPlaylist._get_links_to_episodes raises ValueError
get_links_to_episodes_raises(links_to_episodes) ==
    \E n \in DOMAIN links_to_episodes :
        int_raises(re_sub_episode(links_to_episodes[n].name))

\* AnimevostPlaylist._get_links_to_episodes: res[episode] = link for every
\* entry in turn, then the links by ascending episode
get_links_to_episodes_first_wins(links_to_episodes) ==
    LET episode(n) == int(re_sub_episode(links_to_episodes[n].name))
        keys == {episode(n) : n \in DOMAIN links_to_episodes}
        res(key) == links_to_episodes[Min({n \in DOMAIN links_to_episodes :
                                              episode(n) = key})].hd
        sorted(m) == CHOOSE key \in keys : Cardinality({x \in keys : x < key}) = m - 1
    IN  [m \in 1..Cardinality(keys) |-> res(sorted(m))]

get_links_to_episodes(links_to_episodes) ==
    LET episode(n) == int(re_sub_episode(links_to_episodes[n].name))
        keys == {episode(n) : n \in DOMAIN links_to_episodes}
        res(key) == links_to_episodes[Max({n \in DOMAIN links_to_episodes :
                                              episode(n) = key})].hd
        sorted(m) == CHOOSE key \in keys : Cardinality({x \in keys : x < key}) = m - 1
    IN  [m \in 1..Cardinality(keys) |-> res(sorted(m))]

\* An AnimevostPlaylist before its first update(): no playlist attribute yet
NewPlaylist(id) ==
    [has |-> FALSE, id |-> id, playlist |-> <<>>, is_modified_after_update |-> FALSE]

\* AnimevostPlaylist.update (animevost.py), the API having answered
PlaylistUpdateKeepsFlag(pl) ==
    LET playlist == get_links_to_episodes(Feed(pl.id))
    IN  IF (pl.has /\ pl.playlist # playlist) \/ ~pl.has
        THEN [pl EXCEPT !.has = TRUE,
                        !.is_modified_after_update = TRUE,
                        !.playlist = playlist]
        ELSE pl

PlaylistUpdate(pl) ==
    LET playlist == get_links_to_episodes(Feed(pl.id))
    IN  IF (pl.has /\ pl.playlist # playlist) \/ ~pl.has
        THEN [pl EXCEPT !.has = TRUE,
                        !.is_modified_after_update = TRUE,
                        !.playlist = playlist]
        ELSE [pl EXCEPT !.is_modified_after_update = FALSE]

\* Playlist.update (sites/animevost.py): the playlist is replaced, then
\* compared with the one held before
SitesPlaylistUpdate(pl) ==
    LET playlist_before == pl.playlist
        playlist == get_links_to_episodes(Feed(pl.id))
    IN  [pl EXCEPT !.playlist = playlist,
                   !.is_modified_after_update = (playlist # playlist_before)]

\* AnimevostPlaylist.__eq__
PlaylistEq(a, b) == a.id = b.id /\ a.playlist = b.playlist

----------------------------------------------------------------------------
(* Animevost. *)

\* Animevost._get_id: re.search(r'(?<=/)\d+(?=-)', link), the first run of
\* digits that follows a slash and is followed by a hyphen; <<>> when there
\* is none (re.search returns None)
re_search_id(link) ==
    LET runs == {r \in (DOMAIN link) \X (DOMAIN link) :
                    /\ r[1] <= r[2]
                    /\ r[1] > 1 /\ link[r[1] - 1] = "/"
                    /\ \A n \in r[1]..r[2] : IsDigit(link[n])
                    /\ r[2] < Len(link) /\ link[r[2] + 1] = "-"}
    IN  IF runs = {} THEN <<>>
        ELSE LET first == Min({r[1] : r \in runs})
             IN  SubSeq(link, first, (CHOOSE r \in runs : r[1] = first)[2])

get_id_raises(link) == re_search_id(link) = <<>>

get_id(link) == int(re_search_id(link))

\* The queries, prompts and answers to the prompt tried
Queries == {"naruto", "bleach", "abc", "onepiece", "gintama"}

DefaultPrompt == "Enter the release number: "

Prompts == {DefaultPrompt}

Choices == 0..3

\* Animevost.__init__ raises: the query is shorter than 4 characters
\* (SearchQueryLenError), nothing is found, the user's number is out of
\* range (UserEnteredIncorrectDataError), the link holds no id, or the first
\* playlist update raises
init_raises(search_query_text, user_choice) ==
    LET result == SiteSearch(search_query_text)
    IN  \/ Len(search_query_text) < 4
        \/ result = <<>>
        \/ ~(0 < user_choice /\ user_choice <= Len(result))
        \/ get_id_raises(result[user_choice].link)
        \/ get_links_to_episodes_raises(Feed(get_id(result[user_choice].link)))

\* Animevost.__init__: the user picks a release of the search result, and the
\* playlist is built
Animevost(search_query_text, text_for_get_user_choice, user_choice) ==
    LET release == SiteSearch(search_query_text)[user_choice]
    IN  [has |-> TRUE,
         search_query_text |-> search_query_text,
         text_for_get_user_choice |-> text_for_get_user_choice,
         release |-> release,
         playlist |-> PlaylistUpdate(NewPlaylist(get_id(release.link)))]

\* The exception Animevost.__init__ raises, in the order of its checks
init_exception(search_query_text, user_choice) ==
    LET result == SiteSearch(search_query_text)
    IN  IF Len(search_query_text) < 4 THEN "SearchQueryLenError"
        ELSE IF result = <<>> THEN "SearchQueryDidNotReturnAnyResultsError"
        ELSE IF ~(0 < user_choice /\ user_choice <= Len(result))
             THEN "UserEnteredIncorrectDataError"
        ELSE IF get_id_raises(result[user_choice].link) THEN "AttributeError"
        ELSE "ValueError"

Create ==
    /\ \E q \in Queries, p \in Prompts, c \in Choices :
          IF init_raises(q, c)
          THEN cur' = cur /\ op' = "create_failed" /\ ret' = Raised(init_exception(q, c))
          ELSE cur' = Animevost(q, p, c) /\ op' = "create" /\ ret' = Returned(<<>>)
    /\ UNCHANGED <<dlvars, plvars, site, db>>

\* Animevost.update: the playlist is updated, and the title with it when the
\* playlist has changed
AnimevostUpdate(self, updated) ==
    [self EXCEPT !.playlist = updated,
                 !.release.title = IF ~PlaylistEq(self.playlist, updated)
                                   THEN PageTitle(self.release.link)
                                   ELSE @]

Update ==
    /\ cur.has
    /\ IF get_links_to_episodes_raises(Feed(cur.playlist.id))
       THEN cur' = cur /\ op' = "update_failed" /\ ret' = Raised("ValueError")
       ELSE /\ cur' = AnimevostUpdate(cur, PlaylistUpdate(cur.playlist))
            /\ op' = "update"
            /\ ret' = Returned(<<>>)
    /\ UNCHANGED <<dlvars, plvars, site, db>>

\* Anime.update of sites/animevost.py
UpdateSites ==
    /\ cur.has
    /\ IF get_links_to_episodes_raises(Feed(cur.playlist.id))
       THEN cur' = cur /\ op' = "update_failed" /\ ret' = Raised("ValueError")
       ELSE /\ cur' = AnimevostUpdate(cur, SitesPlaylistUpdate(cur.playlist))
            /\ op' = "update"
            /\ ret' = Returned(<<>>)
    /\ UNCHANGED <<dlvars, plvars, site, db>>

\* Animevost.__eq__
AnimevostEq(self, other) ==
    /\ self.search_query_text = other.search_query_text
    /\ self.text_for_get_user_choice = other.text_for_get_user_choice

----------------------------------------------------------------------------
(* library.Playlist and library.Anime.  The class that implements          *)
(* update_playlist and _get_title for the site is not in the source: its   *)
(* update_playlist follows the design document, with the playlist built as *)
(* the site classes build it.                                              *)

\* library.Playlist.__init__: self.playlist = tuple(links)
Playlist(links) == [playlist |-> links]

\* library.Playlist.__eq__
LibraryPlaylistEq(self, other) == self.playlist = other.playlist

\* library.Anime.__eq__, both sides being Anime objects: a comparison of the
\* tuples (link, title, playlist), the playlists by Playlist.__eq__
AnimeEqWithFlag(self, other) ==
    /\ self.link = other.link
    /\ self.title = other.title
    /\ LibraryPlaylistEq(self.playlist, other.playlist)
    /\ self.is_modified_after_update = other.is_modified_after_update

AnimeEq(self, other) ==
    /\ self.link = other.link
    /\ self.title = other.title
    /\ LibraryPlaylistEq(self.playlist, other.playlist)

\* library.Anime.__ne__
AnimeNe(self, other) == ~AnimeEq(self, other)

\* update_playlist raises: the playlist cannot be built from the entries
update_playlist_raises(self) ==
    get_links_to_episodes_raises(Feed(get_id(self.link)))

\* update_playlist: the playlist is rebuilt from the entries the site serves
\* and replaces the one held; the flag tells whether it differs from it
update_playlist(self) ==
    LET built == Playlist(get_links_to_episodes(Feed(get_id(self.link))))
    IN  [self EXCEPT !.playlist = built,
                     !.is_modified_after_update = ~LibraryPlaylistEq(self.playlist, built)]

\* library.Anime.__init__: the title is fetched when none is given, and the
\* playlist is built for the first time
Anime(link, title) ==
    [has |-> TRUE,
     link |-> link,
     title |-> IF title = "None" THEN PageTitle(link) ELSE title,
     playlist |-> Playlist(get_links_to_episodes(Feed(get_id(link)))),
     is_modified_after_update |-> TRUE]

\* a == b on two stored objects: the __eq__ of their class
Eq(a, b) ==
    IF "search_query_text" \in DOMAIN a THEN AnimevostEq(a, b) ELSE AnimeEq(a, b)

----------------------------------------------------------------------------
(* The store. *)

\* list.index(value): the first position of an item equal to value, 0 when
\* there is none (ValueError)
list_index(items, value) ==
    LET found == {n \in DOMAIN items : Eq(items[n], value)}
    IN  IF found = {} THEN 0 ELSE Min(found)

\* list.remove(value), an equal item being there
list_remove(items, value) ==
    LET n == list_index(items, value)
    IN  SubSeq(items, 1, n - 1) \o SubSeq(items, n + 1, Len(items))

\* list.insert at position n
list_insert(items, n, value) ==
    SubSeq(items, 1, n - 1) \o <<value>> \o SubSeq(items, n, Len(items))

\* Animevost.save_to_db, the list it pickles when the store exists
save_to_db_at_end(items, self) ==
    IF list_index(items, self) # 0
    THEN Append(list_remove(items, self), self)
    ELSE Append(items, self)

save_to_db(items, self) ==
    LET index == list_index(items, self)
    IN  IF index # 0
        THEN list_insert(list_remove(items, self), index, self)
        ELSE Append(items, self)

\* Animevost.save_to_db
SaveCreatesEmpty ==
    /\ cur.has
    /\ db' = IF db.exists
             THEN [db EXCEPT !.items = save_to_db(db.items, cur)]
             ELSE [exists |-> TRUE, items |-> <<>>]
    /\ op' = "save"
    /\ ret' = Returned(<<>>)
    /\ UNCHANGED <<dlvars, plvars, site, cur>>

Save ==
    /\ cur.has
    /\ db' = IF db.exists
             THEN [db EXCEPT !.items = save_to_db(db.items, cur)]
             ELSE [exists |-> TRUE, items |-> <<cur>>]
    /\ op' = "save"
    /\ ret' = Returned(<<>>)
    /\ UNCHANGED <<dlvars, plvars, site, cur>>

\* Animevost.delete_from_db: FileNotFoundError without a store,
\* ObjectNotFoundInDBError without an equal item
Delete ==
    /\ cur.has
    /\ IF db.exists /\ list_index(db.items, cur) # 0
       THEN /\ db' = [db EXCEPT !.items = list_remove(db.items, cur)]
            /\ op' = "delete"
            /\ ret' = Returned(<<>>)
       ELSE /\ db' = db
            /\ op' = "delete_failed"
            /\ ret' = Raised(IF db.exists THEN "ObjectNotFoundInDBError"
                                          ELSE "FileNotFoundError")
    /\ UNCHANGED <<dlvars, plvars, site, cur>>

\* library.get_db, and the program goes on with one of the objects loaded
Pick ==
    /\ db.exists
    /\ \E n \in DOMAIN db.items : cur' = db.items[n]
    /\ op' = "pick"
    /\ ret' = Returned(<<>>)
    /\ UNCHANGED <<dlvars, plvars, site, db>>

\* library.get_db: the list pickled in the store file; open(path, 'rb')
\* raises FileNotFoundError when there is no file, and creates none
get_db ==
    /\ op' = "get_db"
    /\ ret' = IF db.exists THEN Returned(db.items) ELSE Raised("FileNotFoundError")
    /\ UNCHANGED <<dlvars, plvars, site, cur, db>>

\* No download under way
InitNoDownload ==
    /\ urls = <<>>
    /\ continue_ = TRUE
    /\ max_workers = DefaultMaxWorkers
    /\ fs = <<>>
    /\ fs0 = <<>>
    /\ main = "idle"
    /\ i = 1
    /\ err = "none"
    /\ task = <<>>
    /\ rn = <<>>

InitStore ==
    /\ site = 1
    /\ cur = NoObject
    /\ db = NoStore
    /\ op = "none"
    /\ ret = Returned(<<>>)
    /\ InitNoDownload
    /\ InitNoPlaylist

NextStore ==
    \/ SiteChange
    \/ Create
    \/ Update
    \/ UpdateSites
    \/ Save
    \/ Delete
    \/ Pick
    \/ get_db

SpecStore == InitStore /\ [][NextStore]_vars

----------------------------------------------------------------------------
(* The store of library.Anime objects and the functions of library.py. *)

MaxItems == 2       \* the longest store the program saves to

\* The releases a search can find
Releases == UNION {{SiteSearch(q)[c] : c \in DOMAIN SiteSearch(q)} : q \in Queries}

\* An Anime is made of a release found, with its link and title
NewAnime ==
    /\ \E release \in Releases :
          IF get_id_raises(release.link)
          THEN cur' = cur /\ op' = "new_failed" /\ ret' = Raised("AttributeError")
          ELSE IF update_playlist_raises(release)
          THEN cur' = cur /\ op' = "new_failed" /\ ret' = Raised("ValueError")
          ELSE /\ cur' = Anime(release.link, release.title)
               /\ op' = "new"
               /\ ret' = Returned(<<>>)
    /\ UNCHANGED <<dlvars, plvars, site, db>>

\* anime.update_playlist() on the object held
UpdatePlaylist ==
    /\ cur.has
    /\ IF update_playlist_raises(cur)
       THEN cur' = cur /\ op' = "update_playlist_failed" /\ ret' = Raised("ValueError")
       ELSE cur' = update_playlist(cur) /\ op' = "update_playlist" /\ ret' = Returned(<<>>)
    /\ UNCHANGED <<dlvars, plvars, site, db>>

\* The object held is saved as the site classes save themselves
SaveAnime ==
    /\ Len(db.items) < MaxItems \/ list_index(db.items, cur) # 0
    /\ Save

\* library.remove_from_db(obj, path_to_db)
remove_from_db ==
    /\ cur.has
    /\ IF ~db.exists
       THEN db' = db /\ ret' = Raised("FileNotFoundError")
       ELSE IF list_index(db.items, cur) = 0
       THEN db' = db /\ ret' = Raised("ObjectNotFoundInDBError")
       ELSE db' = [db EXCEPT !.items = list_remove(db.items, cur)] /\ ret' = Returned(<<>>)
    /\ op' = "remove_from_db"
    /\ UNCHANGED <<dlvars, plvars, site, cur>>

\* library.get_updated_anime_from_db
get_updated_anime_from_db_no_raise ==
    /\ op' = "get_updated_anime_from_db"
    /\ ret' = IF ~db.exists THEN Raised("FileNotFoundError")
              ELSE Returned(SelectSeq(db.items, LAMBDA anime : anime.is_modified_after_update))
    /\ UNCHANGED <<dlvars, plvars, site, cur, db>>

get_updated_anime_from_db ==
    /\ op' = "get_updated_anime_from_db"
    /\ ret' = IF ~db.exists THEN Raised("FileNotFoundError")
              ELSE LET res == SelectSeq(db.items, LAMBDA anime : anime.is_modified_after_update)
                   IN  IF res = <<>> THEN Raised("NoUpdatedReleasesError") ELSE Returned(res)
    /\ UNCHANGED <<dlvars, plvars, site, cur, db>>

\* The loop of update_and_save_all_db over the items left, none raising:
\* each is updated, and appended unless an equal one is in updated_db
updated_db_keeps_all(items, acc) ==
    acc \o [n \in DOMAIN items |-> update_playlist(items[n])]

RECURSIVE updated_db(_, _)
updated_db(items, acc) ==
    IF items = <<>> THEN acc
    ELSE LET anime == update_playlist(Head(items))
         IN  updated_db(Tail(items),
                        IF \E n \in DOMAIN acc : Eq(acc[n], anime) THEN acc
                        ELSE Append(acc, anime))

\* library.update_and_save_all_db: an exception of update_playlist leaves the
\* loop and the function, before push_db
update_and_save_all_db ==
    /\ op' = "update_and_save_all_db"
    /\ IF ~db.exists
       THEN db' = db /\ ret' = Raised("FileNotFoundError")
       ELSE IF \E n \in DOMAIN db.items : update_playlist_raises(db.items[n])
       THEN db' = db /\ ret' = Raised("ValueError")
       ELSE db' = [db EXCEPT !.items = updated_db(db.items, <<>>)] /\ ret' = Returned(<<>>)
    /\ UNCHANGED <<dlvars, plvars, site, cur>>

NextLibrary ==
    \/ SiteChange
    \/ NewAnime
    \/ UpdatePlaylist
    \/ SaveAnime
    \/ remove_from_db
    \/ get_updated_anime_from_db
    \/ update_and_save_all_db
    \/ Pick
    \/ get_db

SpecLibrary == InitStore /\ [][NextLibrary]_vars

----------------------------------------------------------------------------
(* library.Playlist.__getitem__, on a playlist built from entries of the   *)
(* playlist API.  An int key is [type, value], a slice is [type, start,    *)
(* stop] with start and stop None or Some(int) and no step.                *)

MaxEntries == 3     \* the most entries the API serves

IntKey(n) == [type |-> "int", value |-> n]

NoneKey == [type |-> "NoneType"]

StrKey == [type |-> "str"]

SliceKey(start, stop) == [type |-> "slice", start |-> start, stop |-> stop]

\* range_ = {*range(len(self.playlist)), None}
range_(self) == {Some(n) : n \in 0..(Len(self.playlist) - 1)} \cup {None}

\* tuple[start:stop] for start and stop None or in range(len(tuple)): the
\* items at the 0-based positions start..stop-1
tuple_slice(t, start, stop) ==
    LET lo == IF start = None THEN 0 ELSE start[1]
        hi == IF stop = None THEN Len(t) ELSE stop[1]
    IN  SubSeq(t, lo + 1, hi)

\* __getitem__, the branch of an int key
getitem_int_zero_based(self, key) ==
    IF Some(key) \notin range_(self) THEN Raised("IndexError")
    ELSE Returned(self.playlist[key + 1])

getitem_int(self, key) ==
    LET k == key - 1
    IN  IF Some(k) \notin range_(self) THEN Raised("IndexError")
        ELSE Returned(self.playlist[k + 1])

\* __getitem__, the branch of a slice
getitem_slice(self, key_start, key_stop) ==
    LET start == IF key_start # None THEN Some(key_start[1] - 1) ELSE None
        stop == key_stop
    IN  IF start \notin range_(self) \/ stop \notin range_(self)
        THEN Raised("IndexError")
        ELSE IF start # None /\ stop # None /\ start[1] > stop[1]
        THEN Raised("IndexError")
        ELSE Returned(tuple_slice(self.playlist, start, stop))

\* library.Playlist.__getitem__
getitem(self, k) ==
    IF k.type = "slice" THEN getitem_slice(self, k.start, k.stop)
    ELSE IF k.type = "int" THEN getitem_int(self, k.value)
    ELSE IF k.type = "NoneType"
    THEN IF self.playlist = <<>> THEN Raised("IndexError")
         ELSE Returned(self.playlist[Len(self.playlist)])
    ELSE Raised("TypeError")

\* The entries the API may serve: episodes 1, 2 and 10 and a film
EntriesTried ==
    {[name |-> ds \o <<" seriya">>, hd |-> hd] :
        ds \in {<<"1">>, <<"2">>, <<"1", "0">>}, hd \in {"x", "y"}}
    \cup {[name |-> <<"Film">>, hd |-> "f"]}

\* The sequences of at most n items of S
SeqsUpTo(S, n) == UNION {[1..m -> S] : m \in 0..n}

\* The keys tried on a playlist: ints and bounds from -1 to one past its
\* length, None, open and closed slices, and a key of another type
BoundsTried(self) == {Some(n) : n \in -1..(Len(self.playlist) + 1)} \cup {None}

KeysTried(self) ==
    {IntKey(n) : n \in -1..(Len(self.playlist) + 1)}
    \cup {NoneKey, StrKey}
    \cup {SliceKey(start, stop) : start \in BoundsTried(self), stop \in BoundsTried(self)}

InitPlaylist ==
    /\ api_entries \in SeqsUpTo(EntriesTried, MaxEntries)
    /\ lib_playlist = None
    /\ item_key = None
    /\ site = 1
    /\ cur = NoObject
    /\ db = NoStore
    /\ op = "none"
    /\ ret = Returned(<<>>)
    /\ InitNoDownload

\* library.Playlist(_get_links_to_episodes(entries)), as
\* AnimevostPlaylist.update builds it
Build ==
    /\ IF get_links_to_episodes_raises(api_entries)
       THEN lib_playlist' = lib_playlist /\ op' = "build_failed" /\ ret' = Raised("ValueError")
       ELSE /\ lib_playlist' = Some(Playlist(get_links_to_episodes(api_entries)))
            /\ op' = "build"
            /\ ret' = Returned(<<>>)
    /\ item_key' = None
    /\ UNCHANGED <<dlvars, api_entries, site, cur, db>>

\* playlist[key], each key being tried on the playlist just built
GetItem ==
    /\ lib_playlist # None
    /\ op = "build"
    /\ \E k \in KeysTried(lib_playlist[1]) :
          /\ item_key' = k
          /\ ret' = getitem(lib_playlist[1], k)
    /\ op' = "getitem"
    /\ UNCHANGED <<dlvars, api_entries, lib_playlist, site, cur, db>>

NextPlaylist ==
    \/ Build
    \/ GetItem

SpecPlaylist == InitPlaylist /\ [][NextPlaylist]_vars

----------------------------------------------------------------------------
(* Claims about the downloader. *)

\* The paths of the catalogue's URLs, computed once
Paths ==
    [u \in {Catalogue[c] : c \in DOMAIN Catalogue} |->
        [rejected |-> file_name_rejected(u),
         temp |-> get_path_to_temp_file(u),
         final |-> get_path_to_file(u)]]

\* The temp and the final path of urls[k]
Temp(k) == Paths[urls[k]].temp

Final(k) == Paths[urls[k]].final

\* No other URL of the batch has the file name of urls[k]
UniqueName(k) ==
    /\ ~Paths[urls[k]].rejected
    /\ \A j \in DOMAIN urls \ {k} : Paths[urls[j]].rejected \/ Final(j) # Final(k)

\* What the temp file of urls[k] held when download() was called and is
\* kept by this run: its content when the run resumes, nothing otherwise
Kept(k) ==
    LET tmp == Temp(k)
    IN  IF continue_ /\ tmp \in DOMAIN fs0 THEN fs0[tmp] ELSE <<>>

\* C1: a file is placed under the final name only if the URL's transfer task
\* streamed its response to completion without error in this run; a URL
\* whose task failed is not renamed, its temp file keeps the '.part' name.
C1_FinalNameOnlyAfterCompleteTransfer ==
    \A k \in DOMAIN urls : rn[k] = "ok" => task[k].st = "ok"

\* C2: with continue_ and a temp file present when download() starts, the
\* request carries a Range header starting at the temp file's length and
\* the received bytes are appended to it; with continue_ and no temp file no
\* Range header is sent and the temp file holds the received bytes from
\* zero; without continue_ no Range header is sent and the temp file is
\* truncated, so it holds the received bytes only.
C2_RangeAndAppend ==
    \A k \in DOMAIN urls :
        LET tmp == Temp(k)
            had == tmp \in DOMAIN fs0
        IN  task[k].st \in {"responded", "streaming", "ok"} /\ UniqueName(k) =>
              /\ task[k].range = IF continue_ /\ had THEN Len(fs0[tmp]) ELSE -1
              /\ task[k].st = "responded" /\ had => fs[tmp] = fs0[tmp]
              /\ task[k].st \in {"streaming", "ok"} /\ rn[k] # "ok" =>
                    fs[tmp] = (IF continue_ /\ had THEN fs0[tmp] ELSE <<>>) \o task[k].got

\* a resumed transfer has appended a byte to the bytes it found
C2_Witness ==
    \E k \in DOMAIN urls :
        /\ UniqueName(k)
        /\ continue_
        /\ Temp(k) \in DOMAIN fs0
        /\ task[k].st = "streaming"
        /\ task[k].range > 0
        /\ task[k].got # <<>>

\* C3: a run with continue_ that finds the first n bytes of the source in
\* the temp file (0 < n < size) asks for the bytes from n on, and, the server
\* serving that range, ends with a final file equal to the source, which is
\* also what a transfer from zero ends with.
C3_ResumeEqualsFullDownload ==
    \A k \in DOMAIN urls :
        LET tmp == Temp(k)
            n == Len(fs0[tmp])
            resumed == /\ continue_
                       /\ tmp \in DOMAIN fs0
                       /\ 0 < n /\ n < SourceSize
                       /\ fs0[tmp] = SubSeq(Source(urls[k]), 1, n)
                       /\ task[k].partial
            fromZero == ~continue_ \/ tmp \notin DOMAIN fs0
        IN  task[k].st = "ok" /\ rn[k] = "ok" /\ UniqueName(k) =>
              /\ resumed => /\ task[k].range = n
                            /\ fs[Final(k)] = Source(urls[k])
                            /\ Len(fs[Final(k)]) = SourceSize
              /\ fromZero => fs[Final(k)] = Source(urls[k])

\* a resumed transfer was renamed to its final name
C3_Witness ==
    \E k \in DOMAIN urls :
        LET tmp == Temp(k)
        IN  /\ UniqueName(k)
            /\ continue_
            /\ tmp \in DOMAIN fs0
            /\ 0 < Len(fs0[tmp]) /\ Len(fs0[tmp]) < SourceSize
            /\ task[k].partial
            /\ task[k].st = "ok"
            /\ rn[k] = "ok"
            /\ main = "returned"

\* C4: a response without a declared size does not make the transfer fail.
C4_MissingSizeNotFatal ==
    \A k \in DOMAIN urls : ~(task[k].st = "failed" /\ task[k].cause = "header")

\* C5: when a task has failed, every other URL of the batch is still
\* executed to its end before stage 2 starts, its rename is attempted, and a
\* URL whose own task succeeded is renamed with everything it received
\* (unless os.rename itself fails).
C5_SiblingsUnaffected ==
    \A j \in DOMAIN urls : \A k \in DOMAIN urls \ {j} :
        task[j].st = "failed" =>
          /\ main \in {"stage2", "returned"} => task[k].st \in {"ok", "failed"}
          /\ main = "returned" => rn[k] \in {"ok", "oserror"}
          /\ task[k].st = "ok" /\ rn[k] = "ok" /\ UniqueName(k) =>
                /\ task[k].body = <<>>
                /\ fs[Final(k)] = Kept(k) \o task[k].got

\* one task failed, a later one was transferred and renamed
C5_Witness ==
    \E j \in DOMAIN urls : \E k \in DOMAIN urls :
        /\ j < k
        /\ task[j].st = "failed"
        /\ task[k].st = "ok"
        /\ rn[k] = "ok"
        /\ fs[Final(k)] = Source(urls[k])
        /\ main = "returned"

\* C6: no two tasks of a batch write to the same temp file at the same time.
C6_DistinctDestinations ==
    \A j \in DOMAIN urls : \A k \in DOMAIN urls \ {j} :
        task[j].st = "streaming" /\ task[k].st = "streaming" =>
            Temp(j) # Temp(k)

\* C7: a rename that fails with an OS error changes no file and does not end
\* download(): the loop goes on to the next URL, every URL's rename has been
\* attempted when download() returns, and download() never ends with the
\* OSError.
C7_RenameFailureIsPerFile ==
    /\ [](err # "OSError")
    /\ [](main = "returned" => \A k \in DOMAIN urls : rn[k] \in {"ok", "oserror"})
    /\ [][\A k \in DOMAIN urls :
            rn[k] = "none" /\ rn'[k] = "oserror" =>
                /\ fs' = fs
                /\ i' = i + 1
                /\ main' = IF k = Len(urls) THEN "returned" ELSE "stage2"]_vars

\* a rename failed with the temp file there, which is still there after a
\* later URL was renamed and download() returned
C7_Witness ==
    \E j \in DOMAIN urls : \E k \in DOMAIN urls :
        /\ j < k
        /\ rn[j] = "oserror"
        /\ Temp(j) \in DOMAIN fs
        /\ rn[k] = "ok"
        /\ main = "returned"

\* C8: at most max_workers tasks are executing at any moment (so a task
\* submitted while max_workers tasks are executing starts only after one of
\* them has ended).
C8_BoundedPool == Cardinality(Executing) <= max_workers

\* every worker is busy and a submitted task waits
C8_Witness == Cardinality(Executing) = max_workers /\ Queued # {}

\* A submitted task that has ended: _copy_url returned or raised
Ended(k) == task[k].st \in {"ok", "failed"}

\* C22: no rename is attempted before every submitted task has ended; the
\* renames are attempted one at a time in the order of self.urls, once per
\* URL; download() returns after the last attempt, and it ends (returning
\* or raising) when every transfer ends.
C22_RenamesAfterAllTransfers ==
    /\ []((\E k \in DOMAIN rn : rn[k] # "none") => \A k \in DOMAIN task : Ended(k))
    /\ [](main \in {"stage2", "returned"} => \A k \in DOMAIN task : Ended(k))
    /\ [][rn' # rn =>
            /\ rn[i] = "none" /\ rn'[i] # "none"
            /\ \A k \in DOMAIN rn : /\ k < i => rn'[k] = rn[k] /\ rn[k] # "none"
                                    /\ k > i => rn'[k] = "none"]_vars
    /\ [](main = "returned" => \A k \in DOMAIN rn : rn[k] # "none")
    /\ <>(main \in {"returned", "raised"})

\* download() has returned after two rename attempts, one for a task that
\* ended with an exception and one for a task that ended well
C22_Witness ==
    /\ main = "returned"
    /\ Len(urls) = 2
    /\ task[1].st = "failed"
    /\ task[2].st = "ok"
    /\ \A k \in DOMAIN rn : rn[k] # "none"

\* urls[k] is the first URL of the batch whose file name is rejected
RejectedAt(k) ==
    /\ Paths[urls[k]].rejected
    /\ \A j \in 1..(k - 1) : ~Paths[urls[j]].rejected

\* C23: when the file name of urls[k] is rejected, download() does not reach
\* stage 2 and ends by raising that ValueError; urls[k] and the URLs after it
\* are never submitted, the tasks of the URLs before it have run to their end
\* (a task that ended well left its temp file) before download() raises, and
\* no rename is attempted.
C23_RejectedNameFailsBatch ==
    \A k \in DOMAIN urls : RejectedAt(k) =>
        /\ main \notin {"joining", "stage2", "returned"}
        /\ \A j \in k..Len(urls) : task[j].st = "new"
        /\ \A j \in DOMAIN rn : rn[j] = "none"
        /\ \A j \in DOMAIN urls : Final(j) \in DOMAIN fs => Final(j) \in DOMAIN fs0
        /\ main = "unwinding" => err = "ValueError" /\ i = k
        /\ main = "raised" =>
                /\ err = "ValueError"
                /\ \A j \in 1..(k - 1) :
                        /\ Ended(j)
                        /\ task[j].st = "ok" => Temp(j) \in DOMAIN fs

\* download() has raised for the second URL of a batch after the first
\* URL's task ended well
C23_Witness ==
    /\ main = "raised"
    /\ Len(urls) = 2
    /\ RejectedAt(2)
    /\ task[1].st = "ok"
    /\ Temp(1) \in DOMAIN fs

----------------------------------------------------------------------------
(* Claims about the tracked show and the store. *)

\* C9: after a playlist update the object holds the playlist built from the
\* entries the site serves now, and is_modified_after_update is true iff this
\* was the first build (the constructor's) or the playlist differs from the
\* one held just before; an update that changes nothing sets the flag to
\* false whatever it was.
C9_DirtyFlag ==
    [][op' \in {"create", "update"} =>
         LET built == get_links_to_episodes(Feed(cur'.playlist.id))
         IN  /\ cur'.playlist.has
             /\ cur'.playlist.playlist = built
             /\ cur'.playlist.is_modified_after_update =
                   IF op' = "create" THEN TRUE ELSE cur.playlist.playlist # built]_vars

\* an update has found the playlist unchanged and has cleared the flag that
\* the first build had set
C9_Witness ==
    /\ op = "update"
    /\ site = 3
    /\ cur.playlist.playlist = <<"x", "y">>
    /\ ~cur.playlist.is_modified_after_update

\* C10: saving to an existing store replaces the first item equal to the
\* saved object, at its position, or appends the object when no item is
\* equal to it; the other items keep their positions; saving again right
\* away changes nothing.
C10_Upsert ==
    /\ [][op' = "save" /\ db.exists =>
            LET equal == {n \in DOMAIN db.items : AnimevostEq(db.items[n], cur)}
            IN  /\ db'.exists
                /\ db'.items = IF equal # {}
                               THEN [db.items EXCEPT ![Min(equal)] = cur]
                               ELSE Append(db.items, cur)]_vars
    /\ [][op = "save" /\ op' = "save" => db' = db]_vars

\* the object saved is at the first of two positions, where an item equal to
\* it was: it was not moved to the end
C10_Witness ==
    /\ op = "save"
    /\ Len(db.items) = 2
    /\ db.items[1] = cur
    /\ ~cur.playlist.is_modified_after_update

\* The link, the title and the playlist of an Animevost object
Triple(self) == <<self.release.link, self.release.title, self.playlist.playlist>>

\* C11: removing an object from an existing store deletes the first item
\* that has the object's link, title and playlist, and leaves the other
\* items as they are, in their order; when no item has them, the removal
\* raises ObjectNotFoundInDBError and the store is left as it is.
C11_RemoveFirstEqual ==
    [][op' \in {"delete", "delete_failed"} /\ db.exists =>
         LET equal == {n \in DOMAIN db.items : Triple(db.items[n]) = Triple(cur)}
         IN  IF equal # {}
             THEN /\ ret'.exc = "none"
                  /\ db'.exists
                  /\ db'.items = SubSeq(db.items, 1, Min(equal) - 1)
                                    \o SubSeq(db.items, Min(equal) + 1, Len(db.items))
             ELSE /\ ret'.exc = "ObjectNotFoundInDBError"
                  /\ db' = db]_vars

\* C12: update_and_save_all_db goes on after an update_playlist that raises:
\* every stored show whose update does not raise is refreshed, and the
\* refreshed list is saved.
C12_RefreshAllContinues ==
    [][op' = "update_and_save_all_db" /\ db.exists =>
         \A n \in DOMAIN db.items :
             ~update_playlist_raises(db.items[n]) =>
                 \E m \in DOMAIN db'.items :
                     AnimeEq(db'.items[m], update_playlist(db.items[n]))]_vars

\* The Anime objects the program holds or has stored
Held == (IF cur.has THEN {cur} ELSE {}) \cup {db.items[n] : n \in DOMAIN db.items}

\* The titles tried in comparisons
TitlesTried == {"Naruto", "Naruto [1-220]", "Bleach"}

\* C13: two Anime objects are equal iff they have the same link, the same
\* title and the same playlist, whatever their is_modified_after_update
\* flags; a != b is the negation of a == b.
C13_AnimeEquality ==
    \A a \in Held, b \in Held, title \in TitlesTried, flag \in BOOLEAN :
        LET other == [b EXCEPT !.title = title, !.is_modified_after_update = flag]
        IN  /\ AnimeEq(a, other) <=> /\ a.link = other.link
                                     /\ a.title = other.title
                                     /\ a.playlist.playlist = other.playlist.playlist
            /\ AnimeNe(a, other) <=> ~AnimeEq(a, other)

\* the object held equals a stored one although their flags differ: the
\* stored one was saved after the first build, the one held has since been
\* refreshed without a change
C13_Witness ==
    /\ cur.has
    /\ \E n \in DOMAIN db.items :
          /\ AnimeEq(db.items[n], cur)
          /\ db.items[n].is_modified_after_update
          /\ ~cur.is_modified_after_update

\* C14: get_updated_anime_from_db returns the stored objects whose
\* is_modified_after_update is true, in the order of the store; it raises
\* NoUpdatedReleasesError iff there is none; the store is left as it is.
C14_UpdatedInStoreOrder ==
    [][op' = "get_updated_anime_from_db" /\ db.exists =>
         LET dirty == {n \in DOMAIN db.items : db.items[n].is_modified_after_update}
             pos(j) == CHOOSE n \in dirty : Cardinality({m \in dirty : m < n}) = j - 1
         IN  /\ db' = db
             /\ ret'.exc = "NoUpdatedReleasesError" <=> dirty = {}
             /\ dirty # {} =>
                   /\ ret'.exc = "none"
                   /\ Len(ret'.value) = Cardinality(dirty)
                   /\ \A j \in 1..Len(ret'.value) : ret'.value[j] = db.items[pos(j)]]_vars

\* of two stored objects only the second is returned
C14_Witness ==
    /\ op = "get_updated_anime_from_db"
    /\ Len(db.items) = 2
    /\ ~db.items[1].is_modified_after_update
    /\ ret = Returned(<<db.items[2]>>)

\* C15: without a store file, get_db raises FileNotFoundError and creates no
\* file, and save_to_db creates the store with the saved object as its only
\* item; get_db returns the list the store holds.
C15_MissingStore ==
    /\ [][op' = "get_db" /\ ~db.exists =>
            ret' = Raised("FileNotFoundError") /\ ~db'.exists]_vars
    /\ [][op' = "save" /\ ~db.exists =>
            db' = [exists |-> TRUE, items |-> <<cur>>]]_vars
    /\ [][op' = "get_db" /\ db.exists => ret' = Returned(db.items) /\ db' = db]_vars
    /\ [][op = "save" /\ op' = "get_db" =>
            ret'.exc = "none" /\ \E n \in DOMAIN ret'.value : ret'.value[n] = cur]_vars

\* the store created by a save has been loaded: one item, the object saved
C15_Witness ==
    /\ op = "get_db"
    /\ cur.has
    /\ ret = Returned(<<cur>>)
    /\ db.items = <<cur>>

----------------------------------------------------------------------------
(* Claims about library.Playlist. *)

\* The episode number of the n-th entry served
EpisodeOf(n) == int(re_sub_episode(api_entries[n].name))

\* The playlist built, and whether the last call was playlist[key] with an
\* int key, or with a slice
Built == lib_playlist[1].playlist

IntKeyTried == op = "getitem" /\ item_key.type = "int"

SliceTried == op = "getitem" /\ item_key.type = "slice"

\* C16: the playlist built from the entries has one link per episode number;
\* playlist[i], for i from 1 to its length, is the link of the entry whose
\* number is the i-th smallest, the last such entry when a number is listed
\* more than once; building again from the same entries gives an equal
\* playlist.
C16_SortedLastWins ==
    lib_playlist # None =>
        LET numbers == {EpisodeOf(n) : n \in DOMAIN api_entries}
            rank(n) == Cardinality({x \in numbers : x < EpisodeOf(n)}) + 1
            last(n) == \A m \in DOMAIN api_entries : m > n => EpisodeOf(m) # EpisodeOf(n)
        IN  /\ Len(Built) = Cardinality(numbers)
            /\ \A n \in DOMAIN api_entries :
                   last(n) =>
                       getitem(lib_playlist[1], IntKey(rank(n))) = Returned(api_entries[n].hd)
            /\ IntKeyTried /\ item_key.value \in 1..Len(Built) =>
                   \E n \in DOMAIN api_entries :
                       /\ last(n)
                       /\ rank(n) = item_key.value
                       /\ ret = Returned(api_entries[n].hd)
            /\ LibraryPlaylistEq(Playlist(get_links_to_episodes(api_entries)),
                                 lib_playlist[1])

\* episode 10 is served before episode 2, and episode 2 twice: playlist[1]
\* is the link of the second entry for episode 2
C16_Witness ==
    /\ api_entries = << [name |-> <<"1", "0", " seriya">>, hd |-> "x"],
                        [name |-> <<"2", " seriya">>, hd |-> "x"],
                        [name |-> <<"2", " seriya">>, hd |-> "y"] >>
    /\ IntKeyTried
    /\ item_key.value = 1
    /\ ret = Returned("y")
    /\ Built = <<"y", "x">>

\* C17: playlist[key] with an int key returns the key-th link when key is in
\* 1..len(playlist) and raises IndexError otherwise (0, negative, past the
\* end); playlist[None] of a playlist that is not empty is its last link,
\* playlist[len(playlist)].
C17_OneBasedIndex ==
    /\ IntKeyTried =>
          IF item_key.value \in 1..Len(Built)
          THEN ret.exc = "none" /\ ret.value = Built[item_key.value]
          ELSE ret.exc = "IndexError"
    /\ op = "getitem" /\ item_key.type = "NoneType" /\ Built # <<>> =>
          /\ ret.exc = "none"
          /\ ret.value = Built[Len(Built)]
          /\ LET at_len == getitem(lib_playlist[1], IntKey(Len(Built)))
             IN  at_len.exc = "none" /\ at_len.value = ret.value

\* playlist[None] has returned the second of two links
C17_Witness ==
    /\ op = "getitem"
    /\ item_key = NoneKey
    /\ Built = <<"x", "y">>
    /\ ret = Returned("y")

\* C18: playlist[start:stop] with start > stop, neither being None, raises
\* IndexError.
C18_StartAfterStop ==
    SliceTried /\ item_key.start # None /\ item_key.stop # None
               /\ item_key.start[1] > item_key.stop[1]
        => ret.exc = "IndexError"

\* C19: playlist[start:stop] with 1 <= start <= stop <= len(playlist)
\* returns the links at the positions start..stop, both included; a start
\* of None stands for 1 and a stop of None for len(playlist).
C19_InclusiveSlice ==
    SliceTried =>
        LET start == IF item_key.start = None THEN 1 ELSE item_key.start[1]
            stop == IF item_key.stop = None THEN Len(Built) ELSE item_key.stop[1]
        IN  1 <= start /\ start <= stop /\ stop <= Len(Built) =>
                ret = Returned(SubSeq(Built, start, stop))

\* C20: playlist[start:stop] raises IndexError when a start or a stop that
\* is not None lies outside 1..len(playlist), 0 included.
C20_BoundsChecked ==
    (SliceTried /\ \E bound \in {item_key.start, item_key.stop} :
                      bound # None /\ bound[1] \notin 1..Len(Built))
        => ret.exc = "IndexError"

----------------------------------------------------------------------------
(* Claims about the creation of a tracked show. *)

\* The exceptions of Animevost.__init__ other than the one for a link
\* without an id: of the search, of the user's choice, of the playlist
OtherInitErrors ==
    {"SearchQueryLenError", "SearchQueryDidNotReturnAnyResultsError",
     "UserEnteredIncorrectDataError", "ValueError"}

\* C21: a creation that fails because the link of the chosen release holds
\* no id fails with LinkHasNoIDError, and leaves no object; an object
\* created has the id found in its link and a playlist built for that id.
C21_NoIdIsLinkHasNoIDError ==
    /\ [][op' = "create_failed" /\ ret'.exc \notin OtherInitErrors =>
            ret'.exc = "LinkHasNoIDError" /\ cur' = cur]_vars
    /\ [][op' = "create" =>
            /\ ~get_id_raises(cur'.release.link)
            /\ cur'.playlist.id = get_id(cur'.release.link)
            /\ cur'.playlist.has]_vars

----------------------------------------------------------------------------
(* Claims about the records of one show. *)

\* The places of the store's records that have the link
RecordsOf(items, link) == {n \in DOMAIN items : items[n].link = link}

\* C24: saving an object right after its update_playlist, when the store
\* holds one record of its link, replaces that record and adds none: the
\* store still holds one record of the link.
C24_OneRecordPerLink ==
    [][/\ op = "update_playlist" /\ op' = "save"
       /\ Cardinality(RecordsOf(db.items, cur.link)) = 1
       => /\ Cardinality(RecordsOf(db'.items, cur.link)) = 1
          /\ \E n \in RecordsOf(db.items, cur.link) :
                db'.items = [db.items EXCEPT ![n] = cur]]_vars

\* The stored records after each one's update_playlist
Refreshed(items) == [n \in DOMAIN items |-> update_playlist(items[n])]

\* The places of the refreshed records that no earlier refreshed record equals
FirstOfEqual(items) ==
    {n \in DOMAIN items :
        \A m \in 1..(n - 1) : ~Eq(Refreshed(items)[m], Refreshed(items)[n])}

\* The j-th smallest member of a set of naturals
Nth(S, j) == CHOOSE n \in S : Cardinality({k \in S : k < n}) = j - 1

\* C25: when update_and_save_all_db completes, no two stored records are
\* equal; the store holds, in their order, the refreshed records that no
\* earlier refreshed record equals, and so not more records than before.
C25_RefreshAllKeepsFirstOfEqual ==
    [][op' = "update_and_save_all_db" /\ ret'.exc = "none" =>
        /\ \A m, n \in DOMAIN db'.items : Eq(db'.items[m], db'.items[n]) => m = n
        /\ Len(db'.items) <= Len(db.items)
        /\ Len(db'.items) = Cardinality(FirstOfEqual(db.items))
        /\ \A j \in DOMAIN db'.items :
                db'.items[j] = Refreshed(db.items)[Nth(FirstOfEqual(db.items), j)]]_vars

\* update_and_save_all_db has completed and left two records in the store,
\* the first with its playlist as it was and the second with a new one
C25_Witness ==
    /\ op = "update_and_save_all_db"
    /\ ret.exc = "none"
    /\ Len(db.items) = 2
    /\ ~db.items[1].is_modified_after_update
    /\ db.items[2].is_modified_after_update
    /\ db.items[2].playlist.playlist # <<>>

\* C26: save_to_db and delete_from_db of an Animevost object leave in the
\* store, as it is, every record whose release has another link than the
\* object's release.
C26_OtherReleasesUntouched ==
    [][op' \in {"save", "delete", "delete_failed"} =>
        \A n \in DOMAIN db.items :
            db.items[n].release.link # cur.release.link =>
                \E m \in DOMAIN db'.items : db'.items[m] = db.items[n]]_vars

====
